---- MODULE Spec2Model ----
(***************************************************************************)
(* A model of ocijail's process launch code (src/ocijail/process.cpp):     *)
(* the constructor, getenv/setenv, validate, pre_start and exec.           *)
(*                                                                         *)
(* Strings are sequences of one-character strings, so that find('='),      *)
(* substr and path splitting are computed the way the code computes them.  *)
(***************************************************************************)
EXTENDS Integers, Sequences, FiniteSets, TLC

VARIABLES
    pc,               \* position of the caller in the launch sequence
    \* ---- the process object's fields
    args_, cwd_, env_, uid_, gid_, gids_, umask_, terminal_,
    console_socket_, detach_, preserve_fds_,
    \* ---- the constructor's input and outcome
    doc, ctor_error,
    \* ---- getenv/setenv calls
    env_before, last_key, last_val, got,
    \* ---- validate
    fs_exec, fs_regular, probes, validate_result,
    \* ---- pre_start
    pre_calls, stdin_fd, stdout_fd, stderr_fd,
    \* ---- exec
    fdtab, cloexec, entry_fdtab, trace, error, sig

vars == <<pc, args_, cwd_, env_, uid_, gid_, gids_, umask_, terminal_,
          console_socket_, detach_, preserve_fds_, doc, ctor_error,
          env_before, last_key, last_val, got,
          fs_exec, fs_regular, probes, validate_result,
          pre_calls, stdin_fd, stdout_fd, stderr_fd,
          fdtab, cloexec, entry_fdtab, trace, error, sig>>

objVars  == <<args_, cwd_, uid_, gid_, gids_, umask_, terminal_,
              console_socket_, detach_, preserve_fds_>>
ctorVars == <<doc, ctor_error>>
envVars  == <<env_before, last_key, last_val, got>>
valVars  == <<fs_exec, fs_regular, probes, validate_result>>
preVars  == <<pre_calls, stdin_fd, stdout_fd, stderr_fd>>
execVars == <<fdtab, cloexec, entry_fdtab, trace, error, sig>>

----------------------------------------------------------------------------
(* Bounds of the model *)

MaxStr == 2        \* longest key/value/entry body drawn for the environment
MaxEnv == 2        \* longest environment drawn
MaxVal == 1        \* longest value handed to setenv
MaxPath == 3       \* longest $PATH value drawn
MaxGids == 2       \* longest user.additionalGids drawn
MaxPreserve == 1   \* largest preserve_fds drawn
MaxFd == 6         \* largest descriptor number of the model
NSIG == 3          \* signals 0 .. NSIG-1 (signal.h's NSIG, cut down)
MaxOpenFd == 4     \* exec on its own: descriptors above it start closed
MaxStdFd == 3      \* exec on its own: largest descriptor passed as a stream

----------------------------------------------------------------------------
(* Strings *)

RECURSIVE StrsUpTo(_, _)
StrsUpTo(alphabet, n) ==
    IF n = 0 THEN {<<>>}
    ELSE LET shorter == StrsUpTo(alphabet, n - 1)
         IN  shorter \cup {Append(s, c) : s \in shorter, c \in alphabet}

RECURSIVE SeqsUpTo(_, _)
SeqsUpTo(S, n) ==
    IF n = 0 THEN {<<>>}
    ELSE LET shorter == SeqsUpTo(S, n - 1)
         IN  shorter \cup {Append(s, x) : s \in shorter, x \in S}

\* std::string_view::find(c): the first index of c, 0 standing for npos.
Find(s, c) ==
    IF \E i \in 1..Len(s) : s[i] = c
    THEN CHOOSE i \in 1..Len(s) : s[i] = c /\ \A j \in 1..(i - 1) : s[j] # c
    ELSE 0

\* envv.substr(0, pos): the whole string when pos is npos.
KeyOf(e) ==
    LET pos == Find(e, "=") IN
    IF pos = 0 THEN e ELSE SubSeq(e, 1, pos - 1)

\* envv.substr(pos + 1)
ValOf(e) ==
    LET pos == Find(e, "=") IN SubSeq(e, pos + 1, Len(e))

NotFound == [found |-> FALSE, val |-> <<>>]

\* process::getenv: the first entry whose key matches decides.
RECURSIVE getenvFrom(_, _, _)
getenvFrom(env, key, i) ==
    IF i > Len(env) THEN NotFound
    ELSE IF key = KeyOf(env[i])
         THEN IF Find(env[i], "=") = 0
              THEN [found |-> TRUE, val |-> <<>>]
              ELSE [found |-> TRUE, val |-> ValOf(env[i])]
         ELSE getenvFrom(env, key, i + 1)

getenv(env, key) == getenvFrom(env, key, 1)

\* The assert of setenv's scan: it stops the program on an entry without '='
\* unless the build defines NDEBUG (nd).
AssertNoEq(e, nd) == Find(e, "=") = 0 /\ ~nd

\* process::setenv: [env, aborted]; aborted when the assert fired.
RECURSIVE setenvFrom(_, _, _, _, _)
setenvFrom(env, key, keyval, i, nd) ==
    IF i > Len(env) THEN [env |-> Append(env, keyval), aborted |-> FALSE]
    ELSE IF AssertNoEq(env[i], nd)
         THEN [env |-> env, aborted |-> TRUE]
         ELSE IF key = KeyOf(env[i])
              THEN [env |-> [env EXCEPT ![i] = keyval], aborted |-> FALSE]
              ELSE setenvFrom(env, key, keyval, i + 1, nd)

setenv(env, key, val, nd) == setenvFrom(env, key, key \o <<"=">> \o val, 1, nd)

----------------------------------------------------------------------------
(* Values every specification starts from for the parts it does not use *)

ObjIdle ==
    /\ args_ = <<>> /\ cwd_ = <<>> /\ uid_ = 0 /\ gid_ = 0 /\ gids_ = <<>>
    /\ umask_ = 0 /\ terminal_ = FALSE
    /\ console_socket_ = "none" /\ detach_ = FALSE /\ preserve_fds_ = 0

CtorIdle == doc = [t |-> "null"] /\ ctor_error = [kind |-> "none", what |-> "none"]

EnvIdle == env_before = <<>> /\ last_key = <<>> /\ last_val = <<>> /\ got = NotFound

ValIdle == fs_exec = {} /\ fs_regular = {} /\ probes = <<>> /\ validate_result = "none"

\* -1: pre_start has returned no descriptor yet
PreIdle == pre_calls = <<>> /\ stdin_fd = -1 /\ stdout_fd = -1 /\ stderr_fd = -1

ExecIdle == fdtab = <<>> /\ cloexec = {} /\ entry_fdtab = <<>> /\ trace = <<>>
            /\ error = [errno |-> "none", what |-> <<>>] /\ sig = 0

----------------------------------------------------------------------------
(* getenv and setenv on their own *)

EnvChars == {"A", "B", "="}
EnvStrings == StrsUpTo(EnvChars, MaxStr)
EnvEntries == StrsUpTo(EnvChars, MaxStr + 1)

InitEnv ==
    /\ pc = "env_ready"
    /\ env_ \in SeqsUpTo(EnvEntries, MaxEnv)
    /\ ObjIdle /\ CtorIdle /\ EnvIdle /\ ValIdle /\ PreIdle /\ ExecIdle

CallSetenv ==
    /\ pc = "env_ready"
    /\ \E k \in EnvStrings, v \in StrsUpTo(EnvChars, MaxVal), nd \in BOOLEAN :
         LET r == setenv(env_, k, v, nd) IN
         /\ env_before' = env_
         /\ last_key' = k
         /\ last_val' = v
         /\ env_' = r.env
         /\ pc' = IF r.aborted THEN "aborted" ELSE "env_set"
    /\ UNCHANGED <<got, objVars, ctorVars, valVars, preVars, execVars>>

CallGetenv ==
    /\ pc = "env_set"
    /\ got' = getenv(env_, last_key)
    /\ pc' = "env_got"
    /\ UNCHANGED <<env_, env_before, last_key, last_val,
                   objVars, ctorVars, valVars, preVars, execVars>>

NextEnv == CallSetenv \/ CallGetenv

SpecEnv == InitEnv /\ [][NextEnv]_vars

\* C4: setenv always completes; after setenv(k, v), getenv(k) returns v; an
\* entry whose key is k is replaced in place (the first such one, the length
\* and every other entry unchanged), otherwise "k=v" is appended.
C4_SetenvContract ==
    /\ pc # "aborted"
    /\ pc = "env_got" => got = [found |-> TRUE, val |-> last_val]
    /\ pc \in {"env_set", "env_got"} =>
         LET kv == last_key \o <<"=">> \o last_val
             hits == {i \in 1..Len(env_before) : KeyOf(env_before[i]) = last_key}
         IN  IF hits # {}
             THEN LET first == CHOOSE i \in hits : \A j \in hits : i <= j
                  IN  env_ = [env_before EXCEPT ![first] = kv]
             ELSE env_ = Append(env_before, kv)

----------------------------------------------------------------------------
(* validate *)

PATH == <<"P", "A", "T", "H">>
HOME == <<"H", "O", "M", "E">>

\* std::filesystem's operator/ on a relative right-hand side.
PathJoin(dir, cmd) ==
    IF Len(dir) = 0 THEN cmd
    ELSE IF dir[Len(dir)] = "/" THEN dir \o cmd
    ELSE dir \o <<"/">> \o cmd

\* ::eaccess(path, X_OK) == 0
eaccess(path) == path \in fs_exec

\* fs::is_regular_file(path)
is_regular_file(path) == path \in fs_regular

\* The while loop over $PATH: [probes, ok], probes being the paths handed to
\* eaccess, in order.
RECURSIVE PathLoop(_, _, _)
PathLoop(path, cmd, acc) ==
    IF Len(path) = 0 THEN [probes |-> acc, ok |-> FALSE]
    ELSE LET pos == Find(path, ":")
             path_element == IF pos = 0 THEN path ELSE SubSeq(path, 1, pos - 1)
             rest == IF pos = 0 THEN <<>> ELSE SubSeq(path, pos + 1, Len(path))
             abs_cmd == PathJoin(path_element, cmd)
         IN  IF eaccess(abs_cmd)
             THEN [probes |-> Append(acc, abs_cmd), ok |-> TRUE]
             ELSE PathLoop(rest, cmd, Append(acc, abs_cmd))

\* process::validate: [probes, result].
validate ==
    LET cmd == args_[1] IN
    IF Len(cmd) > 0 /\ cmd[1] = "/"
    THEN IF ~eaccess(cmd) THEN [probes |-> <<cmd>>, result |-> "errno"]
         ELSE IF ~is_regular_file(cmd) THEN [probes |-> <<cmd>>, result |-> "EACCES"]
         ELSE [probes |-> <<cmd>>, result |-> "ok"]
    ELSE LET lookup_path == getenv(env_, PATH)
             search == IF lookup_path.found
                       THEN PathLoop(lookup_path.val, cmd, <<>>)
                       ELSE [probes |-> <<>>, ok |-> FALSE]
             workdir_cmd == PathJoin(cwd_, cmd)
         IN  IF search.ok THEN [probes |-> search.probes, result |-> "ok"]
             ELSE [probes |-> Append(search.probes, workdir_cmd),
                   result |-> IF eaccess(workdir_cmd) /\ is_regular_file(workdir_cmd)
                              THEN "ok" ELSE "ENOENT"]

PathChars == {"a", "b", ":"}
BareCmd == <<"t">>
AbsCmd == <<"/", "t">>
WorkDir == <<"/", "w">>
FsPaths == {<<"a", "/", "t">>, <<"b", "/", "t">>, BareCmd, AbsCmd,
            PathJoin(WorkDir, BareCmd)}

InitValidate ==
    /\ pc = "constructed"
    /\ args_ \in {<<BareCmd>>, <<AbsCmd>>}
    /\ cwd_ = WorkDir
    /\ env_ \in {<<>>, <<PATH>>}
              \cup {<<PATH \o <<"=">> \o p>> : p \in StrsUpTo(PathChars, MaxPath)}
    /\ fs_exec \in SUBSET FsPaths
    /\ fs_regular \in SUBSET {AbsCmd, PathJoin(WorkDir, BareCmd)}
    /\ uid_ = 0 /\ gid_ = 0 /\ gids_ = <<0>> /\ umask_ = 0 /\ terminal_ = FALSE
    /\ console_socket_ = "none" /\ detach_ = FALSE /\ preserve_fds_ = 0
    /\ probes = <<>> /\ validate_result = "none"
    /\ CtorIdle /\ EnvIdle /\ PreIdle /\ ExecIdle

CallValidate ==
    /\ pc = "constructed"
    /\ LET r == validate IN
         /\ probes' = r.probes
         /\ validate_result' = r.result
         /\ pc' = IF r.result = "ok" THEN "validated" ELSE "failed"
    /\ UNCHANGED <<env_, fs_exec, fs_regular,
                   objVars, ctorVars, envVars, preVars, execVars>>

NextValidate == CallValidate

SpecValidate == InitValidate /\ [][NextValidate]_vars

\* The colon-separated segments of a $PATH value, empty ones included.
RECURSIVE Segments(_)
Segments(p) ==
    LET pos == Find(p, ":") IN
    IF pos = 0 THEN <<p>>
    ELSE <<SubSeq(p, 1, pos - 1)>> \o Segments(SubSeq(p, pos + 1, Len(p)))

RECURSIVE NonEmptyOnes(_)
NonEmptyOnes(ss) ==
    IF ss = <<>> THEN <<>>
    ELSE IF Len(Head(ss)) = 0 THEN NonEmptyOnes(Tail(ss))
    ELSE <<Head(ss)>> \o NonEmptyOnes(Tail(ss))

\* The candidates the claim lets validate probe for a bare name: one per
\* non-empty segment, left to right.
PathCandidates ==
    LET lookup == getenv(env_, PATH)
        segs == IF lookup.found THEN NonEmptyOnes(Segments(lookup.val)) ELSE <<>>
    IN  [i \in 1..Len(segs) |-> PathJoin(segs[i], args_[1])]

ValidateDoneBare == pc \in {"validated", "failed"} /\ args_[1] = BareCmd

\* C7: for a bare name, validate probes the non-empty $PATH segments left to
\* right and stops at the first executable one; it probes cwd/args[0] only
\* after all of them failed, and fails with ENOENT exactly when every probe
\* failed.
C7_PathSearch ==
    ValidateDoneBare =>
        LET cands == PathCandidates
            hits == {i \in 1..Len(cands) : cands[i] \in fs_exec}
            workdir_cmd == PathJoin(cwd_, args_[1])
        IN  IF hits # {}
            THEN LET first == CHOOSE i \in hits : \A j \in hits : i <= j
                 IN  probes = SubSeq(cands, 1, first) /\ validate_result = "ok"
            ELSE /\ probes = Append(cands, workdir_cmd)
                 /\ validate_result =
                      IF workdir_cmd \in fs_exec /\ workdir_cmd \in fs_regular
                      THEN "ok" ELSE "ENOENT"

----------------------------------------------------------------------------
(* The configuration document: JSON values as tagged records *)

Absent == [t |-> "absent"]          \* what a missing key reads as
JNull == [t |-> "null"]
JNum(n) == [t |-> "num", n |-> n]
JStr(s) == [t |-> "str", s |-> s]
JBool(b) == [t |-> "bool", b |-> b]
JArr(a) == [t |-> "arr", a |-> a]
JObj(o) == [t |-> "obj", o |-> o]

is_object(j) == j.t = "obj"
is_string(j) == j.t = "str"
is_array(j) == j.t = "arr"
is_number(j) == j.t = "num"
is_boolean(j) == j.t = "bool"
is_null(j) == j.t = "null"

\* json::contains(key)
contains(j, key) == j.o[key].t # "absent"

\* operator[] on a mutable json object: a missing key reads as null
At(j, key) == IF contains(j, key) THEN j.o[key] ELSE JNull

NoError == [kind |-> "none", what |-> "none"]
\* malformed_config(what): throws
Malformed(what) == [kind |-> "malformed_config", what |-> what]
\* throw std::runtime_error{what}
RuntimeError(what) == [kind |-> "runtime_error", what |-> what]

\* fs::is_socket(path): the paths of the model that are local domain sockets
Sockets == {"/sock"}
is_socket(path) == path \in Sockets

\* Lines 26-54: the root, cwd and args.
BasicError(d) ==
    IF ~is_object(d) THEN Malformed("process must be an object")
    ELSE IF ~contains(d, "cwd") THEN Malformed("no process.cwd")
    ELSE IF ~is_string(d.o.cwd) THEN Malformed("process.cwd must be a string")
    ELSE IF ~contains(d, "args") THEN Malformed("no process.args")
    ELSE IF ~is_array(d.o.args) THEN Malformed("process.args must be an array")
    ELSE IF Len(d.o.args.a) = 0
         THEN Malformed("process.args must have at least one element")
    ELSE IF \E i \in 1..Len(d.o.args.a) : ~is_string(d.o.args.a[i])
         THEN Malformed("process.args must be an array of strings")
    ELSE NoError

\* Lines 56-95: the checks on user.
UserError(d) ==
    IF ~contains(d, "user") \/ is_null(d.o.user) THEN NoError
    ELSE LET user == d.o.user IN
         IF ~is_object(user) THEN Malformed("process.user must be an object")
         ELSE IF ~is_number(At(user, "uid"))
              THEN Malformed("process.user.uid must be a number")
         ELSE IF ~is_number(At(user, "gid"))
              THEN Malformed("process.user.gid must be a number")
         ELSE IF contains(user, "umask") /\ ~is_number(user.o.umask)
              THEN Malformed("process.user.umask must be a number")
         ELSE IF ~contains(user, "additionalGids") THEN NoError
         ELSE IF ~is_array(user.o.additionalGids)
              THEN Malformed("process.user.additionalGids must be an array")
         ELSE IF \E i \in 1..Len(user.o.additionalGids.a) :
                     ~is_number(user.o.additionalGids.a[i])
              THEN Malformed("process.user.additionalGids must be an array of numbers")
         ELSE NoError

\* Lines 97-115: env and terminal.
EnvTerminalError(d) ==
    IF contains(d, "env") /\ ~is_array(d.o.env)
    THEN Malformed("process.env must be an array")
    ELSE IF contains(d, "env") /\ \E i \in 1..Len(d.o.env.a) : ~is_string(d.o.env.a[i])
         THEN Malformed("process.env must be an array of strings")
    ELSE IF contains(d, "terminal") /\ ~is_boolean(d.o.terminal)
         THEN Malformed("process.terminal must be a boolean")
    ELSE NoError

ConflictErrorNoSocketTest(terminal, detach, console_socket) ==
    IF terminal
    THEN IF detach /\ console_socket = "none"
         THEN RuntimeError("--console-socket is required when detached if process.terminal is true")
         ELSE NoError
    ELSE IF console_socket # "none"
         THEN RuntimeError("--console-socket provided but process.terminal is false")
         ELSE NoError

\* Lines 116-131: the checks across terminal, detach and the console socket.
ConflictError(terminal, detach, console_socket) ==
    IF terminal
    THEN IF detach
         THEN IF console_socket = "none"
              THEN RuntimeError("--console-socket is required when detached if process.terminal is true")
              ELSE IF ~is_socket(console_socket)
                   THEN RuntimeError("--console-socket must be a path to a local domain socket")
                   ELSE NoError
         ELSE NoError
    ELSE IF console_socket # "none"
         THEN RuntimeError("--console-socket provided but process.terminal is false")
         ELSE NoError

\* The values the members hold before the constructor's body assigns them
\* (process.h): uid, gid and terminal as the specification gives them.
default_uid == 0
default_gid == 0
default_terminal == FALSE
\* umask_ is assigned nowhere in the constructor: it keeps whatever process.h
\* or the allocation gave it.
UmaskInitial == {0, 18}

\* Lines 56-95: uid_, gid_ and gids_ as the constructor leaves them.
UserFields(d) ==
    IF ~contains(d, "user")
    THEN [uid |-> 0, gid |-> 0, gids |-> <<0>>]
    ELSE IF is_null(d.o.user)
         THEN [uid |-> default_uid, gid |-> default_gid, gids |-> <<>>]
         ELSE LET user == d.o.user
                  more == IF contains(user, "additionalGids")
                          THEN [i \in 1..Len(user.o.additionalGids.a) |->
                                   user.o.additionalGids.a[i].n]
                          ELSE <<>>
              IN  [uid |-> user.o.uid.n, gid |-> user.o.gid.n,
                   gids |-> <<user.o.gid.n>> \o more]

\* Lines 110-115
TerminalField(d) ==
    IF contains(d, "terminal") THEN d.o.terminal.b ELSE default_terminal

\* The first check that fails, in the constructor's order.
ConstructError(d, console_socket, detach) ==
    IF BasicError(d) # NoError THEN BasicError(d)
    ELSE IF UserError(d) # NoError THEN UserError(d)
    ELSE IF EnvTerminalError(d) # NoError THEN EnvTerminalError(d)
    ELSE ConflictError(TerminalField(d), detach, console_socket)

----------------------------------------------------------------------------
(* The documents and options drawn *)

HomeSet == HOME \o <<"=", "/", "r">>
HomeEmpty == HOME \o <<"=">>

CwdOpts == {Absent, JStr(WorkDir)}
ArgsOpts == {Absent, JArr(<<>>), JArr(<<JStr(BareCmd)>>), JArr(<<JStr(BareCmd), JNum(1)>>)}
GidNums == {JNum(8), JNum(9)}
GidArrays == SeqsUpTo(GidNums, MaxGids)
             \cup {Append(a, JStr(<<"g">>)) : a \in SeqsUpTo(GidNums, MaxGids - 1)}
UserObjs == {JObj([uid |-> u, gid |-> g, umask |-> m, additionalGids |-> a]) :
                u \in {Absent, JNum(7)}, g \in {Absent, JNum(5)},
                m \in {Absent, JNum(18), JStr(<<"m">>)},
                a \in {Absent, JStr(<<"g">>)} \cup {JArr(x) : x \in GidArrays}}
UserOpts == {Absent, JNull, JNum(1)} \cup UserObjs
EnvOpts == {Absent, JArr(<<JNum(1)>>), JArr(<<JStr(HomeSet)>>),
            JArr(<<JStr(HomeEmpty)>>), JArr(<<JStr(<<"A">>)>>)}
TerminalOpts == {Absent, JNum(1), JBool(TRUE), JBool(FALSE)}
Docs == {JNull} \cup
        {JObj([cwd |-> c, args |-> a, user |-> u, env |-> e, terminal |-> t]) :
            c \in CwdOpts, a \in ArgsOpts, u \in UserOpts, e \in EnvOpts,
            t \in TerminalOpts}
ConsoleOpts == {"none", "/sock", "/file"}

\* The descriptors the runtime holds when the launch begins: 0 .. 3 open, each
\* on a file of its own (file f is written f, 0 meaning closed).
InitialFds == [fd \in 0..MaxFd |-> IF fd <= 3 THEN fd + 1 ELSE 0]

Init ==
    /\ pc = "start"
    /\ doc \in Docs
    /\ console_socket_ \in ConsoleOpts
    /\ detach_ \in BOOLEAN
    /\ preserve_fds_ \in 0..MaxPreserve
    /\ args_ = <<>> /\ cwd_ = <<>> /\ env_ = <<>>
    /\ uid_ = 0 /\ gid_ = 0 /\ gids_ = <<>> /\ umask_ = 0 /\ terminal_ = FALSE
    /\ ctor_error = NoError
    /\ EnvIdle /\ ValIdle /\ PreIdle
    /\ fdtab = InitialFds /\ cloexec = {} /\ entry_fdtab = InitialFds
    /\ trace = <<>> /\ error = [errno |-> "none", what |-> <<>>] /\ sig = 0

\* process::process
Construct ==
    /\ pc = "start"
    /\ LET e == ConstructError(doc, console_socket_, detach_) IN
         /\ ctor_error' = e
         /\ IF e # NoError
            THEN /\ pc' = "ctor_failed"
                 /\ UNCHANGED <<args_, cwd_, env_, uid_, gid_, gids_, umask_, terminal_>>
            ELSE /\ pc' = "constructed"
                 /\ cwd_' = doc.o.cwd.s
                 /\ args_' = [i \in 1..Len(doc.o.args.a) |-> doc.o.args.a[i].s]
                 /\ uid_' = UserFields(doc).uid
                 /\ gid_' = UserFields(doc).gid
                 /\ gids_' = UserFields(doc).gids
                 /\ umask_' \in UmaskInitial
                 /\ env_' = IF contains(doc, "env")
                            THEN [i \in 1..Len(doc.o.env.a) |-> doc.o.env.a[i].s]
                            ELSE <<>>
                 /\ terminal_' = TerminalField(doc)
    /\ UNCHANGED <<doc, console_socket_, detach_, preserve_fds_,
                   envVars, valVars, preVars, execVars>>

----------------------------------------------------------------------------
(* pre_start *)

Errnos == {"EPERM", "EINVAL"}

NoOsError == [errno |-> "none", what |-> <<>>]
\* throw std::system_error{errno, std::system_category(), what}
SystemError(e, what) == [errno |-> e, what |-> what]

IsFree(tab, fd) == tab[fd] = 0
\* The kernel hands out the lowest free descriptor numbers.
LowestFree(tab, taken) ==
    CHOOSE fd \in 0..MaxFd :
        /\ IsFree(tab, fd) /\ fd \notin taken
        /\ \A g \in 0..(fd - 1) : ~IsFree(tab, g) \/ g \in taken

PtyControlFile == MaxFd + 2
PtySubFile == MaxFd + 3

\* open_pty(): the pair (control_fd, tty_fd), both newly opened.
open_pty(tab) ==
    LET control_fd == LowestFree(tab, {})
        tty_fd == LowestFree(tab, {control_fd})
    IN  [control_fd |-> control_fd, tty_fd |-> tty_fd,
         tab |-> [tab EXCEPT ![control_fd] = PtyControlFile, ![tty_fd] = PtySubFile]]

NeedsSetsidAlways == TRUE

\* Line 221: the session is created here only when no terminal was asked for.
NeedsSetsid == ~terminal_

PreCall(op, res) == [op |-> op, res |-> res]

\* process::pre_start; pre_calls lists the calls it made, with their results.
PreStart ==
    /\ pc = "constructed"
    /\ IF terminal_ /\ console_socket_ # "none"
       THEN \E pty_res \in {"ok"} \cup Errnos, send_res \in {"ok"} \cup Errnos :
              LET pty == open_pty(fdtab) IN
              IF pty_res # "ok"
              THEN /\ pre_calls' = <<PreCall("open_pty", pty_res)>>
                   /\ pc' = "failed"
                   /\ error' = SystemError(pty_res, <<"open_pty">>)
                   /\ UNCHANGED <<stdin_fd, stdout_fd, stderr_fd, fdtab, entry_fdtab>>
              ELSE /\ fdtab' = pty.tab
                   /\ send_res = "ok" => is_socket(console_socket_)
                   /\ pre_calls' = <<PreCall("open_pty", "ok"),
                                     PreCall("send_pty_control_fd", send_res)>>
                   /\ IF send_res = "ok"
                      THEN /\ stdin_fd' = pty.tty_fd
                           /\ stdout_fd' = pty.tty_fd
                           /\ stderr_fd' = pty.tty_fd
                           /\ entry_fdtab' = pty.tab
                           /\ error' = error
                           /\ pc' = "home"
                      ELSE /\ pc' = "failed"
                           /\ error' = SystemError(send_res, <<"send_pty_control_fd">>)
                           /\ UNCHANGED <<stdin_fd, stdout_fd, stderr_fd, entry_fdtab>>
       ELSE /\ UNCHANGED fdtab
            /\ IF NeedsSetsid
               THEN \E res \in {"ok"} \cup Errnos :
                      /\ pre_calls' = <<PreCall("setsid", res)>>
                      /\ IF res = "ok"
                         THEN /\ stdin_fd' = 0 /\ stdout_fd' = 1 /\ stderr_fd' = 2
                              /\ pc' = "home" /\ error' = error /\ entry_fdtab' = fdtab
                         ELSE /\ pc' = "failed"
                              /\ error' = SystemError(res, <<"error", "calling", "setsid">>)
                              /\ UNCHANGED <<stdin_fd, stdout_fd, stderr_fd, entry_fdtab>>
               ELSE /\ stdin_fd' = 0 /\ stdout_fd' = 1 /\ stderr_fd' = 2
                    /\ pc' = "home" /\ entry_fdtab' = fdtab
                    /\ UNCHANGED <<pre_calls, error>>
    /\ UNCHANGED <<env_, objVars, ctorVars, envVars, valVars, cloexec, trace, sig>>

----------------------------------------------------------------------------
(* exec, one step per operation *)

NextStepUidFirst(p) ==
    CASE p = "home" -> "chdir"
      [] p = "chdir" -> "sigprocmask"
      [] p = "sigprocmask" -> "sigaction"
      [] p = "sigaction" -> "setgroups"
      [] p = "setgroups" -> "setuid"
      [] p = "setuid" -> "setgid"
      [] p = "setgid" -> "umask"
      [] p = "umask" -> "dup2_stdin"
      [] p = "dup2_stdin" -> "dup2_stdout"
      [] p = "dup2_stdout" -> "dup2_stderr"
      [] p = "dup2_stderr" -> "close_range"
      [] p = "close_range" -> "execvp"

\* The statement order of exec, reset_signals and set_uid_gid.
NextStep(p) ==
    CASE p = "home" -> "chdir"
      [] p = "chdir" -> "sigprocmask"
      [] p = "sigprocmask" -> "sigaction"
      [] p = "sigaction" -> "setgroups"
      [] p = "setgroups" -> "setgid"
      [] p = "setgid" -> "setuid"
      [] p = "setuid" -> "umask"
      [] p = "umask" -> "dup2_stdin"
      [] p = "dup2_stdin" -> "dup2_stdout"
      [] p = "dup2_stdout" -> "dup2_stderr"
      [] p = "dup2_stderr" -> "close_range"
      [] p = "close_range" -> "execvp"

\* The message of the system_error each failing call raises.
What(op) ==
    CASE op = "chdir" -> <<"error", "changing", "directory", "to">>
      [] op = "sigprocmask" -> <<"setting", "signal", "mask">>
      [] op = "sigaction" -> <<"setting", "signal", "handler">>
      [] op = "setgroups" -> <<"error", "calling", "setgroups">>
      [] op = "setgid" -> <<"error", "calling", "getgid">>
      [] op = "setuid" -> <<"error", "calling", "setuid">>
      [] op = "umask" -> <<"error", "calling", "umask">>

Call(op, arg, res) == [op |-> op, arg |-> arg, res |-> res]

\* A call whose failure the code turns into a system_error.
Checked(op, arg) ==
    /\ pc = op
    /\ \E res \in {"ok"} \cup Errnos :
         /\ trace' = Append(trace, Call(op, arg, res))
         /\ IF res = "ok"
            THEN pc' = NextStep(op) /\ error' = error
            ELSE pc' = "failed" /\ error' = SystemError(res, What(op))
    /\ UNCHANGED <<env_, objVars, ctorVars, envVars, valVars, preVars,
                   fdtab, cloexec, entry_fdtab, sig>>

\* Lines 268-272: HOME defaulting.
ExecHome ==
    /\ pc = "home"
    /\ LET home == getenv(env_, HOME) IN
         IF ~home.found \/ home.val = <<>>
         THEN \E nd \in BOOLEAN :
                LET r == setenv(env_, HOME, <<"/">>, nd) IN
                /\ env_' = r.env
                /\ pc' = IF r.aborted THEN "aborted" ELSE NextStep("home")
         ELSE env_' = env_ /\ pc' = NextStep("home")
    /\ trace' = Append(trace, Call("home", 0, "ok"))
    /\ UNCHANGED <<objVars, ctorVars, envVars, valVars, preVars,
                   fdtab, cloexec, entry_fdtab, error, sig>>

Chdir == Checked("chdir", 0)

SigProcMask == Checked("sigprocmask", 0)

\* Lines 240-245: one turn of the loop; EINVAL is let through.
SigAction ==
    /\ pc = "sigaction"
    /\ sig < NSIG
    /\ \E res \in IF sig = 0 THEN {"EINVAL"} ELSE {"ok", "EINVAL", "EPERM"} :
         /\ trace' = Append(trace, Call("sigaction", sig, res))
         /\ IF res # "ok" /\ res # "EINVAL"
            THEN pc' = "failed" /\ error' = SystemError(res, What("sigaction"))
                 /\ sig' = sig
            ELSE /\ sig' = sig + 1
                 /\ pc' = IF sig + 1 = NSIG THEN NextStep("sigaction") ELSE "sigaction"
                 /\ error' = error
    /\ UNCHANGED <<env_, objVars, ctorVars, envVars, valVars, preVars,
                   fdtab, cloexec, entry_fdtab>>

SetGroups == Checked("setgroups", Len(gids_))

SetGid == Checked("setgid", gid_)

SetUid == Checked("setuid", uid_)

\* umask(2) cannot fail: the test on its result is never true.
Umask ==
    /\ pc = "umask"
    /\ trace' = Append(trace, Call("umask", umask_, "ok"))
    /\ pc' = NextStep("umask")
    /\ UNCHANGED <<env_, objVars, ctorVars, envVars, valVars, preVars,
                   fdtab, cloexec, entry_fdtab, error, sig>>

\* Lines 301-309: dup2 when the stream is not already in place; its result
\* is not looked at.
Dup2(label, from, to) ==
    /\ pc = label
    /\ IF from = to
       THEN UNCHANGED <<fdtab, cloexec, trace>>
       ELSE IF fdtab[from] = 0
            THEN /\ trace' = Append(trace, Call("dup2", to, "EBADF"))
                 /\ UNCHANGED <<fdtab, cloexec>>
            ELSE /\ trace' = Append(trace, Call("dup2", to, "ok"))
                 /\ fdtab' = [fdtab EXCEPT ![to] = fdtab[from]]
                 /\ cloexec' = cloexec \ {to}
    /\ pc' = NextStep(label)
    /\ UNCHANGED <<env_, objVars, ctorVars, envVars, valVars, preVars,
                   entry_fdtab, error, sig>>

Dup2Stdin == Dup2("dup2_stdin", stdin_fd, 0)

Dup2Stdout == Dup2("dup2_stdout", stdout_fd, 1)

Dup2Stderr == Dup2("dup2_stderr", stderr_fd, 2)

\* The descriptors close_range(3 + preserve_fds_, INT_MAX, ...) covers.
CloseFrom(n) == {fd \in 0..MaxFd : fd >= 3 + n}

\* Line 310: CLOSE_RANGE_CLOEXEC marks the range close-on-exec; the result is
\* not looked at.
CloseRange ==
    /\ pc = "close_range"
    /\ \E res \in {"ok", "EINVAL"} :
         /\ trace' = Append(trace, Call("close_range", 3 + preserve_fds_, res))
         /\ cloexec' = IF res = "ok"
                       THEN cloexec \cup {fd \in CloseFrom(preserve_fds_) : fdtab[fd] # 0}
                       ELSE cloexec
    /\ pc' = NextStep("close_range")
    /\ UNCHANGED <<env_, objVars, ctorVars, envVars, valVars, preVars,
                   fdtab, entry_fdtab, error, sig>>

\* Lines 313-314: on success the new image sees the descriptors that are not
\* close-on-exec; on failure err(1, ...) ends the process.
Execvp ==
    /\ pc = "execvp"
    /\ \E res \in {"ok"} \cup Errnos :
         /\ trace' = Append(trace, Call("execvp", 0, res))
         /\ IF res = "ok"
            THEN /\ pc' = "execed"
                 /\ fdtab' = [fd \in 0..MaxFd |-> IF fd \in cloexec THEN 0 ELSE fdtab[fd]]
                 /\ cloexec' = {}
            ELSE pc' = "exited" /\ UNCHANGED <<fdtab, cloexec>>
    /\ UNCHANGED <<env_, objVars, ctorVars, envVars, valVars, preVars,
                   entry_fdtab, error, sig>>

ExecStep ==
    \/ ExecHome \/ Chdir \/ SigProcMask \/ SigAction
    \/ SetGroups \/ SetGid \/ SetUid \/ Umask
    \/ Dup2Stdin \/ Dup2Stdout \/ Dup2Stderr \/ CloseRange \/ Execvp

Next == Construct \/ PreStart \/ ExecStep

Spec == Init /\ [][Next]_vars

----------------------------------------------------------------------------
(* exec on its own, handed any three descriptors *)

InitExec ==
    /\ pc = "home"
    /\ args_ = <<BareCmd>> /\ cwd_ = WorkDir /\ env_ = <<>>
    /\ uid_ = 0 /\ gid_ = 0 /\ gids_ = <<0>> /\ umask_ = 0
    /\ terminal_ = FALSE /\ console_socket_ = "none" /\ detach_ = FALSE
    /\ preserve_fds_ \in 0..MaxPreserve
    /\ doc = JObj([cwd |-> JStr(WorkDir), args |-> JArr(<<JStr(BareCmd)>>),
                   user |-> Absent, env |-> Absent, terminal |-> Absent])
    /\ ctor_error = NoError
    /\ EnvIdle /\ ValIdle
    /\ pre_calls = <<>>
    /\ stdin_fd \in 0..MaxStdFd /\ stdout_fd \in 0..MaxStdFd /\ stderr_fd \in 0..MaxStdFd
    /\ fdtab \in {[fd \in 0..MaxFd |-> IF fd \in open THEN fd + 1 ELSE 0] :
                     open \in SUBSET (0..MaxOpenFd)}
    /\ entry_fdtab = fdtab
    /\ cloexec = {} /\ trace = <<>> /\ error = NoOsError /\ sig = 0

SpecExec == InitExec /\ [][ExecStep]_vars

----------------------------------------------------------------------------
(* The claims *)

\* The place of each operation in the order the specification fixes.
Rank(c) ==
    CASE c.op = "home" -> 0
      [] c.op = "chdir" -> 1
      [] c.op = "sigprocmask" -> 2
      [] c.op = "sigaction" -> 3 + c.arg
      [] c.op = "setgroups" -> 3 + NSIG
      [] c.op = "setgid" -> 4 + NSIG
      [] c.op = "setuid" -> 5 + NSIG
      [] c.op = "umask" -> 6 + NSIG
      [] c.op = "dup2" -> 7 + NSIG + c.arg
      [] c.op = "close_range" -> 10 + NSIG
      [] c.op = "execvp" -> 11 + NSIG

Issued(op) == \E i \in 1..Len(trace) : trace[i].op = op

\* C1: the operations of exec occur in one fixed order, none repeated: HOME,
\* chdir, sigprocmask, sigaction per signal, setgroups, setgid, setuid, umask,
\* the dup2 calls, close_range, execvp; and execvp is issued only after each
\* of the former has been.
C1_FixedOrder ==
    /\ \A i \in 1..(Len(trace) - 1) : Rank(trace[i]) < Rank(trace[i + 1])
    /\ Issued("execvp") =>
         \A op \in {"home", "chdir", "sigprocmask", "setgroups", "setgid",
                    "setuid", "umask", "close_range"} : Issued(op)

C1_Witness ==
    /\ pc = "execed"
    /\ Issued("dup2")
    /\ Issued("setuid")
    /\ Len(trace) = 12 + NSIG

\* A failed call; the EINVAL by which sigaction refuses a signal number that
\* cannot be set is not counted.
Failed(c) == c.res # "ok" /\ ~(c.op = "sigaction" /\ c.res = "EINVAL")

\* C2: when an operation of exec fails, the sequence stops there: no later
\* operation is issued, and execvp is reached only when every earlier step
\* succeeded.
C2_AbortOnFailure ==
    \A i \in 1..Len(trace) : Failed(trace[i]) => i = Len(trace)

\* C3: for open stdin_fd, stdout_fd, stderr_fd, the new image has on 0, 1, 2
\* the files those descriptors were open on at entry, nothing open from
\* 3 + preserve_fds_ up, and the descriptors in between as they were.
C3_StreamWiring ==
    (/\ pc = "execed"
     /\ entry_fdtab[stdin_fd] # 0 /\ entry_fdtab[stdout_fd] # 0
     /\ entry_fdtab[stderr_fd] # 0
     /\ \A i \in 1..Len(trace) : trace[i].op = "close_range" => trace[i].res = "ok")
    => /\ fdtab[0] = entry_fdtab[stdin_fd]
       /\ fdtab[1] = entry_fdtab[stdout_fd]
       /\ fdtab[2] = entry_fdtab[stderr_fd]
       /\ \A fd \in 3..MaxFd :
            IF fd >= 3 + preserve_fds_ THEN fdtab[fd] = 0
            ELSE fdtab[fd] = entry_fdtab[fd]

\* The documents the constructor is to accept as far as their shape goes.
WellFormedUser(u) ==
    \/ u.t \in {"absent", "null"}
    \/ /\ u.t = "obj"
       /\ u.o.uid.t = "num" /\ u.o.gid.t = "num"
       /\ u.o.umask.t \in {"absent", "num"}
       /\ \/ u.o.additionalGids.t = "absent"
          \/ /\ u.o.additionalGids.t = "arr"
             /\ \A i \in 1..Len(u.o.additionalGids.a) :
                    u.o.additionalGids.a[i].t = "num"

WellFormed(d) ==
    /\ d.t = "obj"
    /\ d.o.cwd.t = "str"
    /\ d.o.args.t = "arr" /\ Len(d.o.args.a) >= 1
    /\ \A i \in 1..Len(d.o.args.a) : d.o.args.a[i].t = "str"
    /\ WellFormedUser(d.o.user)
    /\ \/ d.o.env.t = "absent"
       \/ d.o.env.t = "arr" /\ \A i \in 1..Len(d.o.env.a) : d.o.env.a[i].t = "str"
    /\ d.o.terminal.t \in {"absent", "bool"}

WantsTerminal(d) == d.o.terminal.t = "bool" /\ d.o.terminal.b

\* C5: a well-formed document fails with the conflict error (a runtime_error)
\* exactly when terminal and detach are set and the console socket is missing
\* or no socket, or terminal is off and a console socket is given; an
\* ill-formed one always fails with MalformedConfig.
C5_ConflictExactly ==
    pc # "start" =>
        IF ~WellFormed(doc)
        THEN pc = "ctor_failed" /\ ctor_error.kind = "malformed_config"
        ELSE IF \/ /\ WantsTerminal(doc) /\ detach_
                   /\ (console_socket_ = "none" \/ console_socket_ \notin Sockets)
                \/ ~WantsTerminal(doc) /\ console_socket_ # "none"
             THEN pc = "ctor_failed" /\ ctor_error.kind = "runtime_error"
             ELSE pc # "ctor_failed" /\ ctor_error.kind = "none"

C5_Witness ==
    /\ pc = "ctor_failed"
    /\ ctor_error.kind = "runtime_error"
    /\ WantsTerminal(doc) /\ detach_ /\ console_socket_ = "/file"

Constructed == pc \notin {"start", "ctor_failed"}

\* C6: a constructed process has a non-empty group list headed by its gid:
\* [0] with uid 0 and gid 0 when user is omitted, otherwise the gid followed by
\* additionalGids in their order, uid and gid being the configured ones.
C6_GidHeadsGroups ==
    Constructed =>
        /\ Len(gids_) >= 1
        /\ gids_[1] = gid_
        /\ doc.o.user.t = "absent" => uid_ = 0 /\ gid_ = 0 /\ gids_ = <<0>>
        /\ doc.o.user.t = "obj" =>
             /\ uid_ = doc.o.user.o.uid.n
             /\ gid_ = doc.o.user.o.gid.n
             /\ gids_ = <<gid_>> \o
                  (IF doc.o.user.o.additionalGids.t = "arr"
                   THEN [i \in 1..Len(doc.o.user.o.additionalGids.a) |->
                            doc.o.user.o.additionalGids.a[i].n]
                   ELSE <<>>)

\* C8: when setgroups, setgid, setuid or umask fails, the error raised carries
\* that call's errno and a message naming that call.
C8_ErrorNamesCall ==
    (/\ pc = "failed" /\ trace # <<>>
     /\ trace[Len(trace)].op \in {"setgroups", "setgid", "setuid", "umask"}
     /\ trace[Len(trace)].res # "ok")
    => /\ error.errno = trace[Len(trace)].res
       /\ \E i \in 1..Len(error.what) : error.what[i] = trace[Len(trace)].op

PreCount(op) == Cardinality({i \in 1..Len(pre_calls) : pre_calls[i].op = op})

PreStartReturned == pc \notin {"start", "ctor_failed", "constructed"}
                    /\ ~(pc = "failed" /\ trace = <<>>)

PreStartThrew == pc = "failed" /\ trace = <<>>

\* C9: with terminal and a console socket, pre_start allocates one pty, hands
\* the control descriptor over once, does not call setsid and returns the
\* pty's subordinate descriptor three times; otherwise it allocates and sends
\* nothing, returns (0, 1, 2) and calls setsid once exactly when terminal is
\* off. setsid and the handover never both happen, and a failed setsid raises
\* an OS error and returns nothing.
C9_PreStartTable ==
    /\ ~(PreCount("setsid") > 0 /\ PreCount("send_pty_control_fd") > 0)
    /\ PreStartReturned =>
         IF terminal_ /\ console_socket_ # "none"
         THEN /\ PreCount("open_pty") = 1
              /\ PreCount("send_pty_control_fd") = 1
              /\ PreCount("setsid") = 0
              /\ stdin_fd = stdout_fd /\ stdout_fd = stderr_fd
              /\ stdin_fd \in 0..MaxFd
              /\ entry_fdtab[stdin_fd] = PtySubFile
         ELSE /\ PreCount("open_pty") = 0
              /\ PreCount("send_pty_control_fd") = 0
              /\ <<stdin_fd, stdout_fd, stderr_fd>> = <<0, 1, 2>>
              /\ PreCount("setsid") = IF terminal_ THEN 0 ELSE 1
    /\ \A i \in 1..Len(pre_calls) :
         (pre_calls[i].op = "setsid" /\ pre_calls[i].res # "ok") =>
             /\ PreStartThrew
             /\ error.errno = pre_calls[i].res
             /\ <<stdin_fd, stdout_fd, stderr_fd>> = <<-1, -1, -1>>

C9_Witness ==
    /\ PreStartReturned
    /\ terminal_ /\ console_socket_ # "none"
    /\ PreCount("send_pty_control_fd") = 1
    /\ stdin_fd >= 3

\* C10: a umask that is no number is rejected with MalformedConfig naming
\* process.user.umask, and a numeric umask m is recorded as the process's
\* umask and is the value the umask call of the identity drop is issued with.
C10_UmaskApplied ==
    /\ (/\ pc # "start" /\ doc.t = "obj" /\ doc.o.cwd.t = "str"
        /\ doc.o.args.t = "arr" /\ Len(doc.o.args.a) >= 1
        /\ \A i \in 1..Len(doc.o.args.a) : doc.o.args.a[i].t = "str"
        /\ doc.o.user.t = "obj"
        /\ doc.o.user.o.uid.t = "num" /\ doc.o.user.o.gid.t = "num"
        /\ doc.o.user.o.umask.t \notin {"absent", "num"})
       => ctor_error = [kind |-> "malformed_config",
                        what |-> "process.user.umask must be a number"]
    /\ (Constructed /\ doc.o.user.t = "obj" /\ doc.o.user.o.umask.t = "num")
       => /\ umask_ = doc.o.user.o.umask.n
          /\ \A i \in 1..Len(trace) :
               trace[i].op = "umask" => trace[i].arg = doc.o.user.o.umask.n

====
